---- MODULE Spec2Model ----
(***************************************************************************)
(* SONIC-VAULT: LSB steganography over the sample bytes of a PCM WAV file. *)
(*                                                                         *)
(*   inject.py         inject_payload   (encoder)                          *)
(*   extract.py        extract_payload  (decoder)                          *)
(*   generate_tone.py  generate_wav     (test tone generator)              *)
(*                                                                         *)
(* Characters are their code points, text is a sequence of code points, a  *)
(* binary string is a sequence of 0/1, a byte buffer is a sequence of      *)
(* 0..255 (index k of the source is element k+1 here).  Terminal output    *)
(* (banner, progress bar, coloured log lines) is not modelled.  The float  *)
(* figures usage_percent and distortion_percent are kept as the integers   *)
(* they are computed from.                                                 *)
(***************************************************************************)
EXTENDS Integers, Sequences, FiniteSets, TLC

VARIABLES
    pc,               \* position of the running function
    \* ---- inject_payload
    secret_message,   \* text read from secret_file            (inject.py:95)
    cover,            \* sample bytes of cover_file, as on disk (inject.py:126)
    binary_message,   \* text_to_binary(secret + DELIMITER)    (inject.py:105)
    message_bits,     \* len(binary_message)                   (inject.py:106)
    capacity,         \* len(frames)                           (inject.py:129)
    frames,           \* the bytearray being modified          (inject.py:126)
    original_bytes,   \* frames[:message_bits] before the loop (inject.py:143)
    inj_i,            \* loop index of the injection loop      (inject.py:145)
    output_file,      \* the stego container on disk           (inject.py:163)
    inj_stats,        \* the returned statistics               (inject.py:172)
    \* ---- extract_payload
    stego,            \* frames read from stego_file           (extract.py:113)
    scan_limit,       \* value of MAX_SEARCH_BYTES when read   (extract.py:127)
    max_search,       \* min(total_bytes, MAX_SEARCH_BYTES)    (extract.py:127)
    ext_i,            \* loop index of the scan loop           (extract.py:129)
    extracted_text,   \*                                       (extract.py:122)
    delimiter_found,  \*                                       (extract.py:123)
    ext_stats,        \* the returned statistics               (extract.py:162)
    bytes_read,       \* history: number of frames[..] reads   (extract.py:134)
    last_read,        \* history: highest index read, -1 if none
    iterations,       \* history: scan loop iterations executed
    \* ---- generate_wav
    duration,         \* seconds, in tenths                    (generate_tone.py:58)
    sample_rate,      \*                                       (generate_tone.py:59)
    num_samples,      \*                                       (generate_tone.py:73)
    samples_written,  \*                                       (generate_tone.py:91)
    chunks,           \* history: <<first, end>> of each chunk written
    wav_file,         \* the generated container on disk       (generate_tone.py:83)
    gen_stats         \* the returned statistics               (generate_tone.py:112)

inj_vars == <<secret_message, cover, binary_message, message_bits, capacity,
              frames, original_bytes, inj_i, output_file, inj_stats>>
ext_vars == <<stego, scan_limit, max_search, ext_i, extracted_text,
              delimiter_found, ext_stats, bytes_read, last_read, iterations>>
gen_vars == <<duration, sample_rate, num_samples, samples_written, chunks,
              wav_file, gen_stats>>
vars == <<pc, inj_vars, ext_vars, gen_vars>>

(***************************************************************************)
(* Program constants                                                       *)
(***************************************************************************)
\* DELIMITER = '#####'   (ord('#') = 35)
DELIMITER_four == <<35, 35, 35, 35>>

DELIMITER == <<35, 35, 35, 35, 35>>

\* MAX_SEARCH_BYTES = 10000000
MAX_SEARCH_BYTES == 10000000

\* chunk_size = 8 in extract_payload
chunk_size == 8

\* chunk_size = 1000 in generate_wav
gen_chunk_size == 1000

(***************************************************************************)
(* Bounds of the model                                                     *)
(***************************************************************************)
MaxPayload == 2
MaxGroups == 6

Min(a, b) == IF a < b THEN a ELSE b
Max(a, b) == IF a > b THEN a ELSE b

(***************************************************************************)
(* Pure helpers                                                            *)
(***************************************************************************)
\* Python's a & b on non-negative integers
RECURSIVE BitAnd(_, _)
BitAnd(a, b) ==
    IF a = 0 \/ b = 0 THEN 0
    ELSE 2 * BitAnd(a \div 2, b \div 2) + (IF a % 2 = 1 /\ b % 2 = 1 THEN 1 ELSE 0)

\* Python's a | b on non-negative integers
RECURSIVE BitOr(_, _)
BitOr(a, b) ==
    IF a = 0 THEN b
    ELSE IF b = 0 THEN a
    ELSE 2 * BitOr(a \div 2, b \div 2) + (IF a % 2 = 1 \/ b % 2 = 1 THEN 1 ELSE 0)

\* Python's a ^ b on non-negative integers
RECURSIVE BitXor(_, _)
BitXor(a, b) ==
    IF a = 0 THEN b
    ELSE IF b = 0 THEN a
    ELSE 2 * BitXor(a \div 2, b \div 2) + (IF a % 2 # b % 2 THEN 1 ELSE 0)

\* bin(n).count('1')
RECURSIVE PopCount(_)
PopCount(n) == IF n = 0 THEN 0 ELSE (n % 2) + PopCount(n \div 2)

\* the digits of bin(n), most significant first
RECURSIVE BinDigits(_)
BinDigits(n) == IF n < 2 THEN <<n>> ELSE BinDigits(n \div 2) \o <<n % 2>>

RECURSIVE Zeros(_)
Zeros(n) == IF n <= 0 THEN <<>> ELSE <<0>> \o Zeros(n - 1)

\* format(n, '08b'): binary digits, zero-padded on the left to width 8
\* (wider when n >= 256)
Format08b_lsb_first(n) ==
    [k \in 1..8 |-> (n \div (2 ^ (k - 1))) % 2]

Format08b(n) == Zeros(8 - Len(BinDigits(n))) \o BinDigits(n)

\* text_to_binary: the concatenation of format(ord(char), '08b')
RECURSIVE text_to_binary(_)
text_to_binary(text) ==
    IF text = <<>> THEN <<>>
    ELSE Format08b(Head(text)) \o text_to_binary(Tail(text))

\* int(byte_chunk, 2)
RECURSIVE BinToInt(_)
BinToInt(bits) ==
    IF bits = <<>> THEN 0
    ELSE 2 * BinToInt(SubSeq(bits, 1, Len(bits) - 1)) + bits[Len(bits)]

\* 32 <= char_code <= 126 or char_code in [9, 10, 13]
InAlphabet_with_nul(c) == (0 <= c /\ c <= 126)

InAlphabet(c) == (32 <= c /\ c <= 126) \/ c \in {9, 10, 13}

\* text.endswith(suffix)
EndsWith(text, suffix) ==
    /\ Len(text) >= Len(suffix)
    /\ SubSeq(text, Len(text) - Len(suffix) + 1, Len(text)) = suffix

\* message_bits > capacity
CapacityExceeded_off_by_one(bits, cap) == bits >= cap

CapacityExceeded(bits, cap) == bits > cap

\* (frames[i] & 0xFE) | int(bit)
SetLSB_no_clear(byte, bit) == BitOr(byte, bit)

SetLSB_two_bits(byte, bit) == BitOr(BitAnd(byte, 252), bit)

SetLSB(byte, bit) == BitOr(BitAnd(byte, 254), bit)

\* min(total_bytes, MAX_SEARCH_BYTES)
MaxSearch_unbounded(total_bytes, limit) == total_bytes

MaxSearch(total_bytes, limit) == Min(total_bytes, limit)

\* int(x) of the quotient n / d, d > 0: truncation toward zero
IntTrunc(n, d) == IF n >= 0 THEN n \div d ELSE -((-n) \div d)

(***************************************************************************)
(* Inputs                                                                  *)
(***************************************************************************)
\* '#', 'H', 'I' and one 8-bit character outside the decoder's alphabet
PayloadChars == {35, 72, 73, 200}

Payloads == UNION {[1..n -> PayloadChars] : n \in 0..MaxPayload}

\* cover sample bytes: all zero, all 0xFF, and a mixed sequence
CoverPatterns == {0, 1, 2}

CoverByte(p, k) ==
    CASE p = 0 -> 0
      [] p = 1 -> 255
      [] OTHER -> (k * 37 + 11) % 256

\* lengths around every capacity boundary 8 * (n + 5), and the empty buffer
CoverLens ==
    {0} \cup {8 * (n + 5) + d : n \in 0..MaxPayload, d \in {-1, 0, 1, 9}}

Covers ==
    {[k \in 1..n |-> CoverByte(p, k - 1)] : p \in CoverPatterns, n \in CoverLens}
        \cup {[k \in 1..1000 |-> 0]}

\* values of the 8-byte groups of a stego buffer that inject_payload did not
\* produce: NUL (outside the alphabet), '#', 'H'
GroupVals == {0, 35, 72}

GroupSeqs == UNION {[1..n -> GroupVals] : n \in 0..MaxGroups}

\* number of bytes after the last whole group
TailLens == {0, 6}

\* a buffer whose LSBs spell the groups gs, followed by t bytes whose LSBs are
\* the last t bits of '#' (for t = 6 they read 100011, the number 35); the
\* upper seven bits vary with the position
StegoBuffer(gs, t) ==
    [k \in 1..(8 * Len(gs) + t) |->
        2 * (((k - 1) * 5 + 3) % 128)
          + (IF k <= 8 * Len(gs)
               THEN Format08b(gs[((k - 1) \div 8) + 1])[((k - 1) % 8) + 1]
               ELSE Format08b(35)[8 - t + (k - 8 * Len(gs))])]

\* values of the module global MAX_SEARCH_BYTES at the time extract_payload
\* reads it: the shipped value, and small values that make the limit bind
ScanLimits == {12, 16, 40, MAX_SEARCH_BYTES}

\* generate_wav arguments: duration in tenths of a second, sample_rate in Hz
Durations == {-10, -5, 0, 5, 10, 25}

SampleRates == {-1, 0, 1, 3, 1000, 1001}

NoFile == [exists |-> FALSE, data |-> <<>>]

NoStats == [returned |-> FALSE]

NoWav == [exists |-> FALSE, header |-> FALSE, data_bytes |-> 0]

(***************************************************************************)
(* Initial state: nothing has run, no output exists                        *)
(***************************************************************************)
Init ==
    /\ pc = "idle"
    /\ secret_message = <<>>
    /\ cover = <<>>
    /\ binary_message = <<>>
    /\ message_bits = 0
    /\ capacity = 0
    /\ frames = <<>>
    /\ original_bytes = <<>>
    /\ inj_i = 0
    /\ output_file = NoFile
    /\ inj_stats = NoStats
    /\ stego = <<>>
    /\ scan_limit = MAX_SEARCH_BYTES
    /\ max_search = 0
    /\ ext_i = 0
    /\ extracted_text = <<>>
    /\ delimiter_found = FALSE
    /\ ext_stats = NoStats
    /\ bytes_read = 0
    /\ last_read = -1
    /\ iterations = 0
    /\ duration = 0
    /\ sample_rate = 0
    /\ num_samples = 0
    /\ samples_written = 0
    /\ chunks = <<>>
    /\ wav_file = NoWav
    /\ gen_stats = NoStats

(***************************************************************************)
(* inject_payload                                                          *)
(***************************************************************************)
\* inject.py:91-143: read the secret and the cover, convert, check capacity.
\* Raises ValueError when the bitstream does not fit; nothing has been
\* written at that point.
InjectStart_check_after_write ==
    /\ pc = "idle"
    /\ \E secret \in Payloads, cov \in Covers :
         LET bin == text_to_binary(secret \o DELIMITER)
             n == Min(Len(bin), Len(cov))
             cut == [k \in 1..Len(cov) |->
                       IF k <= n THEN SetLSB(cov[k], bin[k]) ELSE cov[k]]
         IN /\ secret_message' = secret
            /\ cover' = cov
            /\ binary_message' = bin
            /\ message_bits' = Len(bin)
            /\ capacity' = Len(cov)
            /\ IF CapacityExceeded(Len(bin), Len(cov))
                 THEN /\ pc' = "inject_raised"
                      /\ frames' = cut
                      /\ output_file' = [exists |-> TRUE, data |-> cut]
                      /\ original_bytes' = original_bytes
                 ELSE /\ pc' = "inject_loop"
                      /\ frames' = cov
                      /\ output_file' = output_file
                      /\ original_bytes' = SubSeq(cov, 1, Len(bin))
    /\ inj_i' = 0
    /\ UNCHANGED <<inj_stats, ext_vars, gen_vars>>

InjectStart ==
    /\ pc = "idle"
    /\ \E secret \in Payloads, cov \in Covers :
         LET bin == text_to_binary(secret \o DELIMITER)
         IN /\ secret_message' = secret
            /\ cover' = cov
            /\ binary_message' = bin
            /\ message_bits' = Len(bin)
            /\ frames' = cov
            /\ capacity' = Len(cov)
            /\ IF CapacityExceeded(Len(bin), Len(cov))
                 THEN /\ pc' = "inject_raised"
                      /\ original_bytes' = original_bytes
                 ELSE /\ pc' = "inject_loop"
                      /\ original_bytes' = SubSeq(cov, 1, Len(bin))
    /\ inj_i' = 0
    /\ UNCHANGED <<output_file, inj_stats, ext_vars, gen_vars>>

\* inject.py:145-150: one iteration of `for i, bit in enumerate(binary_message)`
InjectBit_spill ==
    /\ pc = "inject_loop"
    /\ inj_i < message_bits
    /\ frames' = [k \in 1..Len(frames) |->
                    IF k = inj_i + 1 THEN SetLSB(frames[k], binary_message[k])
                    ELSE IF k = message_bits + 1 THEN SetLSB(frames[k], 0)
                    ELSE frames[k]]
    /\ inj_i' = inj_i + 1
    /\ UNCHANGED <<pc, secret_message, cover, binary_message, message_bits,
                   capacity, original_bytes, output_file, inj_stats,
                   ext_vars, gen_vars>>

InjectBit ==
    /\ pc = "inject_loop"
    /\ inj_i < message_bits
    /\ frames' = [frames EXCEPT ![inj_i + 1] =
                     SetLSB(frames[inj_i + 1], binary_message[inj_i + 1])]
    /\ inj_i' = inj_i + 1
    /\ UNCHANGED <<pc, secret_message, cover, binary_message, message_bits,
                   capacity, original_bytes, output_file, inj_stats,
                   ext_vars, gen_vars>>

\* sum(bin(a ^ b).count('1') for a, b in zip(original_bytes, modified_bytes))
RECURSIVE HammingDistance(_, _)
HammingDistance(a, b) ==
    IF a = <<>> \/ b = <<>> THEN 0
    ELSE PopCount(BitXor(Head(a), Head(b))) + HammingDistance(Tail(a), Tail(b))

\* inject.py:152-184: distortion figures, write the stego file, return stats
InjectFinish ==
    /\ pc = "inject_loop"
    /\ inj_i >= message_bits
    /\ LET modified_bytes == SubSeq(frames, 1, message_bits)
       IN inj_stats' = [returned |-> TRUE,
                        message_length |-> Len(secret_message),
                        bits_injected |-> message_bits,
                        audio_capacity |-> capacity,
                        bits_changed |-> HammingDistance(original_bytes, modified_bytes),
                        total_bits |-> Len(original_bytes) * 8]
    /\ output_file' = [exists |-> TRUE, data |-> frames]
    /\ pc' = "inject_returned"
    /\ UNCHANGED <<secret_message, cover, binary_message, message_bits,
                   capacity, frames, original_bytes, inj_i, ext_vars, gen_vars>>

(***************************************************************************)
(* extract_payload                                                         *)
(***************************************************************************)
\* extract.py:98-127: read the frames and fix the scan region.  The stego
\* file is either the one inject_payload has just written or a buffer that
\* inject_payload did not produce.
ExtractBegin(buf, limit) ==
    /\ stego' = buf
    /\ scan_limit' = limit
    /\ max_search' = MaxSearch(Len(buf), limit)
    /\ ext_i' = 0
    /\ extracted_text' = <<>>
    /\ delimiter_found' = FALSE
    /\ bytes_read' = 0
    /\ last_read' = -1
    /\ iterations' = 0
    /\ pc' = "extract_loop"
    /\ UNCHANGED <<ext_stats, inj_vars, gen_vars>>

ExtractStart ==
    \/ /\ pc = "inject_returned"
       /\ \E limit \in ScanLimits : ExtractBegin(output_file.data, limit)
    \/ /\ pc = "idle"
       /\ \E gs \in GroupSeqs, t \in TailLens, limit \in ScanLimits :
            ExtractBegin(StegoBuffer(gs, t), limit)

\* extract.py:131-134: the LSBs of the bytes i .. i+7 that lie inside frames
ByteChunk(buf, i) ==
    [j \in 1..Min(chunk_size, Len(buf) - i) |-> BitAnd(buf[i + j], 1)]

\* extract.py:146: extracted_text[:-len(DELIMITER)]
StripDelimiter_short(text) == SubSeq(text, 1, Len(text) - Len(DELIMITER) + 1)

StripDelimiter(text) == SubSeq(text, 1, Len(text) - Len(DELIMITER))

\* extract.py:136: len(byte_chunk) == 8
FullChunk_any(byte_chunk) == Len(byte_chunk) > 0

FullChunk(byte_chunk) == Len(byte_chunk) = 8

\* extract.py:129-151: one iteration of `for i in range(0, max_search, 8)`
ExtractGroup_no_break ==
    /\ pc = "extract_loop"
    /\ ext_i < max_search
    /\ LET byte_chunk == ByteChunk(stego, ext_i)
           char_code == BinToInt(byte_chunk)
           appended == extracted_text \o <<char_code>>
       IN /\ bytes_read' = bytes_read + Len(byte_chunk)
          /\ last_read' = Max(last_read, ext_i + Len(byte_chunk) - 1)
          /\ iterations' = iterations + 1
          /\ ext_i' = ext_i + chunk_size
          /\ IF FullChunk(byte_chunk) /\ InAlphabet(char_code)
               THEN IF EndsWith(appended, DELIMITER)
                      THEN /\ delimiter_found' = TRUE
                           /\ extracted_text' = StripDelimiter(appended)
                      ELSE /\ delimiter_found' = delimiter_found
                           /\ extracted_text' = appended
               ELSE /\ delimiter_found' = delimiter_found
                    /\ extracted_text' = extracted_text
    /\ UNCHANGED <<pc, stego, scan_limit, max_search, ext_stats,
                   inj_vars, gen_vars>>

ExtractGroup ==
    /\ pc = "extract_loop"
    /\ ext_i < max_search
    /\ ~delimiter_found
    /\ LET byte_chunk == ByteChunk(stego, ext_i)
           char_code == BinToInt(byte_chunk)
           appended == extracted_text \o <<char_code>>
       IN /\ bytes_read' = bytes_read + Len(byte_chunk)
          /\ last_read' = Max(last_read, ext_i + Len(byte_chunk) - 1)
          /\ iterations' = iterations + 1
          /\ IF FullChunk(byte_chunk) /\ InAlphabet(char_code)
               THEN IF EndsWith(appended, DELIMITER)
                      THEN /\ delimiter_found' = TRUE
                           /\ extracted_text' = StripDelimiter(appended)
                           /\ ext_i' = ext_i
                      ELSE /\ delimiter_found' = FALSE
                           /\ extracted_text' = appended
                           /\ ext_i' = ext_i + chunk_size
               ELSE /\ delimiter_found' = FALSE
                    /\ extracted_text' = extracted_text
                    /\ ext_i' = ext_i + chunk_size
    /\ UNCHANGED <<pc, stego, scan_limit, max_search, ext_stats,
                   inj_vars, gen_vars>>

\* extract.py:153-170: the loop is over (exhausted or left by break);
\* build and return the statistics
ExtractFinish_raise ==
    /\ pc = "extract_loop"
    /\ ext_i >= max_search \/ delimiter_found
    /\ IF delimiter_found
         THEN /\ ext_stats' = [returned |-> TRUE,
                               message_length |-> Len(extracted_text),
                               delimiter_found |-> delimiter_found,
                               message |-> extracted_text]
              /\ pc' = "extract_returned"
         ELSE /\ ext_stats' = ext_stats
              /\ pc' = "extract_raised"
    /\ UNCHANGED <<stego, scan_limit, max_search, ext_i, extracted_text,
                   delimiter_found, bytes_read, last_read, iterations,
                   inj_vars, gen_vars>>

ExtractFinish ==
    /\ pc = "extract_loop"
    /\ ext_i >= max_search \/ delimiter_found
    /\ ext_stats' = [returned |-> TRUE,
                     message_length |-> Len(extracted_text),
                     delimiter_found |-> delimiter_found,
                     message |-> extracted_text]
    /\ pc' = "extract_returned"
    /\ UNCHANGED <<stego, scan_limit, max_search, ext_i, extracted_text,
                   delimiter_found, bytes_read, last_read, iterations,
                   inj_vars, gen_vars>>

(***************************************************************************)
(* generate_wav                                                            *)
(***************************************************************************)
\* generate_tone.py:73-91: num_samples = int(sample_rate * duration); open
\* the output file and set its parameters.  No argument is validated here;
\* wave's setframerate raises wave.Error for a rate <= 0, which leaves the
\* function before any statistics are built.
GenerateStart ==
    /\ pc = "idle"
    /\ \E d \in Durations, r \in SampleRates :
         /\ duration' = d
         /\ sample_rate' = r
         /\ num_samples' = IntTrunc(r * d, 10)
         /\ IF r <= 0
              THEN /\ pc' = "generate_raised"
                   /\ wav_file' = [exists |-> TRUE, header |-> FALSE, data_bytes |-> 0]
              ELSE /\ pc' = "generate_loop"
                   /\ wav_file' = [exists |-> TRUE, header |-> FALSE, data_bytes |-> 0]
    /\ samples_written' = 0
    /\ chunks' = <<>>
    /\ UNCHANGED <<gen_stats, inj_vars, ext_vars>>

\* generate_tone.py:93-105: one iteration of
\* `while samples_written < num_samples`; each sample is 2 bytes
\* generate_tone.py:94: min(samples_written + chunk_size, num_samples)
ChunkEnd_no_clamp(written, total) == written + gen_chunk_size

ChunkEnd(written, total) == Min(written + gen_chunk_size, total)

GenerateChunk ==
    /\ pc = "generate_loop"
    /\ samples_written < num_samples
    /\ LET chunk_end == ChunkEnd(samples_written, num_samples)
       IN /\ chunks' = Append(chunks, <<samples_written, chunk_end>>)
          /\ wav_file' = [exists |-> TRUE, header |-> TRUE,
                          data_bytes |-> wav_file.data_bytes
                                           + 2 * (chunk_end - samples_written)]
          /\ samples_written' = chunk_end
    /\ UNCHANGED <<pc, duration, sample_rate, num_samples, gen_stats,
                   inj_vars, ext_vars>>

\* generate_tone.py:106-123: the loop is over; closing the file writes the
\* header; build and return the statistics
GenerateFinish ==
    /\ pc = "generate_loop"
    /\ ~(samples_written < num_samples)
    /\ wav_file' = [wav_file EXCEPT !.header = TRUE]
    /\ gen_stats' = [returned |-> TRUE,
                     samples |-> num_samples,
                     file_size |-> num_samples * 2 + 44,
                     stego_capacity_bits |-> num_samples * 2,
                     stego_capacity_chars |-> (num_samples * 2) \div 8]
    /\ pc' = "generate_returned"
    /\ UNCHANGED <<duration, sample_rate, num_samples, samples_written,
                   chunks, inj_vars, ext_vars>>

(***************************************************************************)
(* Specification                                                           *)
(***************************************************************************)
Next ==
    \/ InjectStart
    \/ InjectBit
    \/ InjectFinish
    \/ ExtractStart
    \/ ExtractGroup
    \/ ExtractFinish
    \/ GenerateStart
    \/ GenerateChunk
    \/ GenerateFinish

Spec == Init /\ [][Next]_vars

(***************************************************************************)
(* Vocabulary of the properties                                            *)
(***************************************************************************)
\* the payload alphabet [32,126] u {9,10,13}
PayloadAlphabet == (32..126) \cup {9, 10, 13}

InPayloadAlphabet(text) == \A k \in 1..Len(text) : text[k] \in PayloadAlphabet

\* required capacity in bits of a payload
Required(text) == 8 * (Len(text) + 5)

\* inject_payload has been called
InjectRan ==
    pc \in {"inject_loop", "inject_raised", "inject_returned"} \/ inj_stats.returned

\* extract_payload has been called
ExtractRan == pc \in {"extract_loop", "extract_returned"}

\* extract_payload has returned from decoding what inject_payload wrote
RoundTripDone == pc = "extract_returned" /\ inj_stats.returned

\* text occurs in s as a run of consecutive elements
Contains(s, text) ==
    \E k \in 0..(Len(s) - Len(text)) : SubSeq(s, k + 1, k + Len(text)) = text

\* bit (7 - i mod 8) of the character at position i div 8 of text
StreamBit(text, i) == (text[(i \div 8) + 1] \div (2 ^ (7 - (i % 8)))) % 2

\* the value spelled, first byte's LSB as the most significant bit, by the
\* LSBs of bytes 8g .. 8g+7 of buf
GroupValue(buf, g) ==
      128 * (buf[8 * g + 1] % 2) + 64 * (buf[8 * g + 2] % 2)
    + 32 * (buf[8 * g + 3] % 2) + 16 * (buf[8 * g + 4] % 2)
    + 8 * (buf[8 * g + 5] % 2) + 4 * (buf[8 * g + 6] % 2)
    + 2 * (buf[8 * g + 7] % 2) + (buf[8 * g + 8] % 2)

WholeGroup(buf, g) == 8 * g + 8 <= Len(buf)

\* the in-alphabet values of the whole groups among groups 0 .. n-1 of buf,
\* in scan order
RECURSIVE AlphabetGroups(_, _)
AlphabetGroups(buf, n) ==
    IF n <= 0 THEN <<>>
    ELSE AlphabetGroups(buf, n - 1)
           \o (IF WholeGroup(buf, n - 1) /\ GroupValue(buf, n - 1) \in PayloadAlphabet
                 THEN <<GroupValue(buf, n - 1)>>
                 ELSE <<>>)

\* number of groups that start inside a region of n bytes
GroupsIn(n) == (n + 7) \div 8

(***************************************************************************)
(* C1  Round trip                                                          *)
(***************************************************************************)
\* C1 as stated: for every payload over the alphabet and every cover with
\* len(cover) >= 8 * (len(payload) + 5), decoding (with the shipped scan
\* limit) what the encoder wrote returns message == payload and
\* delimiter_found == true.
C1_RoundTrip_AsStated ==
    (/\ RoundTripDone
     /\ scan_limit = MAX_SEARCH_BYTES
     /\ InPayloadAlphabet(secret_message)
     /\ Len(cover) >= Required(secret_message))
    => (ext_stats.message = secret_message /\ ext_stats.delimiter_found)

\* the payload neither contains '#####' nor ends with '#', so that the first
\* '#####' of payload + '#####' is the appended one
DelimiterFree(text) ==
    /\ ~Contains(text, <<35, 35, 35, 35, 35>>)
    /\ (text = <<>> \/ text[Len(text)] # 35)

\* C1 amended: the round trip returns message == payload and
\* delimiter_found == true for every payload over the alphabet that neither
\* contains '#####' nor ends with '#', when the cover holds the bitstream
\* and the bitstream lies within the scan limit.
C1_RoundTrip ==
    (/\ RoundTripDone
     /\ InPayloadAlphabet(secret_message)
     /\ DelimiterFree(secret_message)
     /\ Len(cover) >= Required(secret_message)
     /\ Required(secret_message) <= scan_limit)
    => (ext_stats.message = secret_message /\ ext_stats.delimiter_found)

\* a payload "#H" has made the round trip
C1_Witness ==
    /\ RoundTripDone
    /\ secret_message = <<35, 72>>
    /\ Len(cover) >= Required(secret_message)
    /\ Required(secret_message) <= scan_limit
    /\ ext_stats.message = <<35, 72>>
    /\ ext_stats.delimiter_found

C3_NoPartialWrite ==
    pc = "inject_raised" =>
        /\ output_file = NoFile
        /\ frames = cover
        /\ ~inj_stats.returned

\* the capacity error on a non-empty cover that is one byte short
C3_Witness ==
    /\ pc = "inject_raised"
    /\ Len(cover) > 0
    /\ Required(secret_message) = Len(cover) + 1

C5_LsbEmbedding ==
    (inj_stats.returned /\ InPayloadAlphabet(secret_message)) =>
        \A i \in 0..(Required(secret_message) - 1) :
            output_file.data[i + 1] =
                (cover[i + 1] - (cover[i + 1] % 2))
                  + StreamBit(secret_message \o <<35, 35, 35, 35, 35>>, i)

\* "HI" in 1000 zero bytes: the 56 leading LSBs spell H, I and five '#'
C5_Witness ==
    /\ pc = "inject_returned"
    /\ secret_message = <<72, 73>>
    /\ cover = [k \in 1..1000 |-> 0]
    /\ SubSeq(output_file.data, 1, 56) =
         <<0,1,0,0,1,0,0,0,  0,1,0,0,1,0,0,1,
           0,0,1,0,0,0,1,1,  0,0,1,0,0,0,1,1,  0,0,1,0,0,0,1,1,
           0,0,1,0,0,0,1,1,  0,0,1,0,0,0,1,1>>
    /\ \A k \in 57..1000 : output_file.data[k] = 0

(***************************************************************************)
(* C6  Empty payload                                                       *)
(***************************************************************************)
\* C6: encoding the empty string into a cover of at least 40 bytes succeeds
\* with bits_injected == 40 and message_length == 0, and decoding the result
\* (scan limit of at least 40 bytes, as the shipped one is) returns
\* message == "" with delimiter_found == true.
C6_EmptyPayload ==
    (InjectRan /\ secret_message = <<>> /\ Len(cover) >= 40) =>
        /\ pc # "inject_raised"
        /\ inj_stats.returned =>
             (inj_stats.bits_injected = 40 /\ inj_stats.message_length = 0)
        /\ (pc = "extract_returned" /\ scan_limit >= 40) =>
             (/\ ext_stats.message = <<>>
              /\ ext_stats.message_length = 0
              /\ ext_stats.delimiter_found)

\* the empty payload has been encoded into a mixed cover and decoded with the
\* shipped scan limit
C6_Witness ==
    /\ RoundTripDone
    /\ secret_message = <<>>
    /\ Len(cover) > 40
    /\ cover[1] = 11
    /\ scan_limit = MAX_SEARCH_BYTES
    /\ inj_stats.bits_injected = 40
    /\ ext_stats.delimiter_found

(***************************************************************************)
(* C7  Alphabet filtering                                                  *)
(***************************************************************************)
\* the accumulated text, with the delimiter that a successful scan stripped
ScannedText == extracted_text \o (IF delimiter_found THEN <<35, 35, 35, 35, 35>> ELSE <<>>)

\* C7: a scan step over a whole group whose value is outside the alphabet
\* appends nothing, raises nothing and moves on to the next group; at every
\* point the accumulated text is exactly the in-alphabet values of the groups
\* scanned so far, in order.
C7_AlphabetFiltering ==
    /\ [](ExtractRan => ScannedText = AlphabetGroups(stego, iterations))
    /\ [][(/\ pc = "extract_loop"
           /\ iterations' = iterations + 1
           /\ WholeGroup(stego, ext_i \div 8)
           /\ GroupValue(stego, ext_i \div 8) \notin PayloadAlphabet)
          => (/\ extracted_text' = extracted_text
              /\ ~delimiter_found'
              /\ pc' = "extract_loop"
              /\ ext_i' = ext_i + 8)]_vars

\* a scan has passed a NUL group and then appended the 'H' that follows it
C7_Witness ==
    /\ pc = "extract_returned"
    /\ Len(stego) >= 16
    /\ GroupValue(stego, 0) = 0
    /\ GroupValue(stego, 1) = 72
    /\ iterations >= 2
    /\ ext_stats.message # <<>>
    /\ ext_stats.message[1] = 72

(***************************************************************************)
(* C8  Scan bound                                                          *)
(***************************************************************************)
\* the text of all whole groups of buf holds no delimiter
NoDelimiterIn(buf) ==
    ~Contains(AlphabetGroups(buf, GroupsIn(Len(buf))), <<35, 35, 35, 35, 35>>)

RoundedLimit == 8 * GroupsIn(scan_limit)

C9_AbsentDelimiter ==
    /\ [](pc = "extract_loop" =>
            \/ (iterations <= GroupsIn(max_search) /\ ext_i = 8 * iterations)
            \/ delimiter_found)
    /\ []((pc = "extract_returned" /\ ~delimiter_found) =>
            /\ ext_stats.returned
            /\ ~ext_stats.delimiter_found
            /\ ext_stats.message = AlphabetGroups(stego, GroupsIn(max_search))
            /\ ext_stats.message_length = Len(ext_stats.message))
    /\ [][(pc = "extract_loop" /\ ext_i >= max_search /\ ~delimiter_found)
          => (/\ pc' = "extract_returned"
              /\ ext_stats'.returned
              /\ ~ext_stats'.delimiter_found
              /\ ext_stats'.message = extracted_text
              /\ ext_stats'.message_length = Len(extracted_text))]_vars

\* a scan has run out of bytes and returned text that ends with "####"
C9_Witness ==
    /\ pc = "extract_returned"
    /\ ~ext_stats.delimiter_found
    /\ ext_stats.message_length >= 5
    /\ EndsWith(ext_stats.message, <<35, 35, 35, 35>>)
    /\ ext_i >= max_search

(***************************************************************************)
(* C10  Invalid generator parameters                                       *)
(***************************************************************************)
\* C10: a call of generate_wav with a duration <= 0 or a sample rate <= 0
\* ends with an error: it returns no statistics and leaves no container.
C10_InvalidParameter ==
    (/\ pc \in {"generate_returned", "generate_raised"}
     /\ (duration <= 0 \/ sample_rate <= 0))
    => (/\ pc = "generate_raised"
        /\ ~gen_stats.returned
        /\ ~wav_file.header)

(***************************************************************************)
(* C11  Early exit at the first delimiter                                  *)
(***************************************************************************)
\* the text of groups 0 .. n-1 of buf ends with the delimiter
DelimiterAt(buf, n) == EndsWith(AlphabetGroups(buf, n), <<35, 35, 35, 35, 35>>)

\* C11: decode stops at the first group after which the accumulated text
\* ends with "#####": no earlier prefix of the scanned groups ends with it,
\* the message is the text of the scanned groups less exactly those 5
\* characters, delimiter_found is true, and no byte of a later group is read;
\* once the delimiter is found the scan takes no further step, so the bytes
\* after that group do not reach the result.
C11_EarlyExit ==
    /\ [](ExtractRan =>
            /\ delimiter_found <=> (iterations > 0 /\ DelimiterAt(stego, iterations))
            /\ \A n \in 0..(iterations - 1) : ~DelimiterAt(stego, n)
            /\ delimiter_found =>
                 /\ Len(AlphabetGroups(stego, iterations)) = Len(extracted_text) + 5
                 /\ extracted_text =
                      SubSeq(AlphabetGroups(stego, iterations), 1, Len(extracted_text))
                 /\ last_read = 8 * iterations - 1)
    /\ [][delimiter_found =>
            (/\ iterations' = iterations
             /\ last_read' = last_read
             /\ extracted_text' = extracted_text
             /\ (pc = "extract_loop" =>
                   (/\ pc' = "extract_returned"
                    /\ ext_stats'.delimiter_found
                    /\ ext_stats'.message = extracted_text)))]_vars

\* payload "##" was encoded: the embedded text "#######" holds the run more
\* than once, the scan stopped at the fifth group of seven and returned ""
C11_Witness ==
    /\ RoundTripDone
    /\ secret_message = <<35, 35>>
    /\ scan_limit = MAX_SEARCH_BYTES
    /\ Len(stego) >= 56
    /\ iterations = 5
    /\ last_read = 39
    /\ ext_stats.delimiter_found
    /\ ext_stats.message = <<>>

(***************************************************************************)
(* C12  Trailing partial group                                             *)
(***************************************************************************)
\* the first 8 * floor(len / 8) bytes of buf
WholeGroupsOf(buf) == SubSeq(buf, 1, 8 * (Len(buf) \div 8))

\* C12: a scan step whose group does not lie wholly inside the buffer appends
\* no character and finds no delimiter; the accumulated text is what the
\* groups of the buffer cut back to a multiple of 8 bytes give, so the final
\* 1-7 bytes contribute nothing.
C12_PartialGroup ==
    /\ [](ExtractRan =>
            /\ ScannedText =
                 AlphabetGroups(WholeGroupsOf(stego),
                                Min(iterations, Len(stego) \div 8))
            /\ Len(ScannedText) <= Len(stego) \div 8)
    /\ [][(/\ pc = "extract_loop"
           /\ iterations' = iterations + 1
           /\ ext_i + 8 > Len(stego))
          => (/\ extracted_text' = extracted_text
              /\ ~delimiter_found'
              /\ ext_stats' = ext_stats)]_vars

\* a scan of "####" followed by 6 bytes whose LSBs read 100011 has stepped
\* over the partial group and returned "####" with no delimiter found
C12_Witness ==
    /\ pc = "extract_returned"
    /\ Len(stego) = 38
    /\ scan_limit = MAX_SEARCH_BYTES
    /\ iterations = 5
    /\ last_read = 37
    /\ [j \in 1..6 |-> stego[32 + j] % 2] = <<1, 0, 0, 0, 1, 1>>
    /\ ext_stats.message = <<35, 35, 35, 35>>
    /\ ~ext_stats.delimiter_found

(***************************************************************************)
(* C13  The generator's chunked write loop                                 *)
(***************************************************************************)
\* generate_wav is past its argument handling
GenerateRan == pc \in {"generate_loop", "generate_returned"}

\* number of chunks of 1000 samples that n samples take
ChunksOf(n) == (n + 999) \div 1000

\* the chunks written so far are the sample ranges [0, 1000), [1000, 2000),
\* ... cut at num_samples: each starts where the previous one ended, none is
\* empty, none is longer than 1000 samples
ChunksInOrder ==
    /\ \A k \in 1..Len(chunks) :
         /\ chunks[k][1] = 1000 * (k - 1)
         /\ chunks[k][1] < chunks[k][2]
         /\ chunks[k][2] <= chunks[k][1] + 1000
         /\ chunks[k][2] <= num_samples
         /\ k < Len(chunks) => chunks[k][2] = chunks[k + 1][1]
    /\ samples_written = (IF chunks = <<>> THEN 0 ELSE chunks[Len(chunks)][2])
    /\ wav_file.data_bytes = 2 * samples_written

\* C13: for num_samples >= 0 the write loop takes one step per chunk of 1000
\* samples and then returns; the chunks are the consecutive index ranges from
\* 0 to num_samples with no index skipped or repeated at a seam, so exactly
\* 2 * num_samples bytes are written and the reported stego capacity is that
\* byte count.
C13_ChunkedWrite ==
    /\ []((GenerateRan /\ num_samples >= 0) =>
            /\ ChunksInOrder
            /\ Len(chunks) <= ChunksOf(num_samples)
            /\ samples_written <= num_samples
            /\ pc = "generate_returned" =>
                 /\ samples_written = num_samples
                 /\ Len(chunks) = ChunksOf(num_samples)
                 /\ wav_file.data_bytes = 2 * num_samples
                 /\ gen_stats.returned
                 /\ gen_stats.samples = num_samples
                 /\ gen_stats.stego_capacity_bits = wav_file.data_bytes)
    /\ [][(pc = "generate_loop" /\ num_samples >= 0) =>
            \/ (pc' = "generate_loop" /\ samples_written' > samples_written)
            \/ (pc' = "generate_returned" /\ samples_written = num_samples)]_vars

\* 2500 samples were written as [0,1000), [1000,2000), [2000,2500)
C13_Witness ==
    /\ pc = "generate_returned"
    /\ num_samples = 2500
    /\ chunks = << <<0, 1000>>, <<1000, 2000>>, <<2000, 2500>> >>
    /\ wav_file.data_bytes = 5000
    /\ gen_stats.stego_capacity_bits = 5000

(***************************************************************************)
(* C14  The returned message and the delimiter                             *)
(***************************************************************************)
\* C14: the message decode returns never contains the run "#####", whether
\* or not delimiter_found is set, and when delimiter_found is true it does
\* not end with '#'.
C14_NoDelimiterInMessage ==
    pc = "extract_returned" =>
        /\ ~Contains(ext_stats.message, <<35, 35, 35, 35, 35>>)
        /\ ext_stats.delimiter_found =>
             (ext_stats.message = <<>>
                \/ ext_stats.message[Len(ext_stats.message)] # 35)

\* a scan of "#H#####" has returned "#H" with the delimiter found
C14_Witness ==
    /\ pc = "extract_returned"
    /\ ext_stats.delimiter_found
    /\ ext_stats.message = <<35, 72>>
    /\ iterations = 7

(***************************************************************************)
(* C15  Distortion figure                                                  *)
(***************************************************************************)
\* the indices below bits_injected where the cover's LSB differs from the
\* bitstream bit
FlippedIndices ==
    {i \in 0..(inj_stats.bits_injected - 1) :
        cover[i + 1] % 2 # StreamBit(secret_message \o <<35, 35, 35, 35, 35>>, i)}

\* C15: encode changes at most the least-significant bit of each byte;
\* bits_changed is the number of indices below bits_injected where the
\* cover's LSB differs from the bitstream bit, it never exceeds
\* bits_injected, and with total_bits = 8 * bits_injected the distortion
\* ratio bits_changed / total_bits is at most 1/8.
C15_Distortion ==
    inj_stats.returned =>
        /\ \A k \in 1..Len(cover) : output_file.data[k] \div 2 = cover[k] \div 2
        /\ inj_stats.bits_changed = Cardinality(FlippedIndices)
        /\ inj_stats.bits_changed <= inj_stats.bits_injected
        /\ inj_stats.total_bits = 8 * inj_stats.bits_injected
        /\ 8 * inj_stats.bits_changed <= inj_stats.total_bits

\* "HI" in an all-0xFF cover: the 36 zero bits of the 56-bit stream flip
C15_Witness ==
    /\ pc = "inject_returned"
    /\ secret_message = <<72, 73>>
    /\ \A k \in 1..Len(cover) : cover[k] = 255
    /\ inj_stats.bits_injected = 56
    /\ inj_stats.bits_changed = 36

====
